---- MODULE Spec2Model ----
(***************************************************************************)
(* secret-populator: a command-line tool that creates or deletes a         *)
(* numbered sequence of secrets in AWS Secrets Manager (src/main.rs).      *)
(*                                                                         *)
(* One invocation of main is modelled step by step: argument parsing, the  *)
(* create loop or the delete loop (one request sent, its outcome awaited   *)
(* and matched, per index), the summary message and the process exit.      *)
(* The remote service is the store: a map from secret names to values.     *)
(* It answers a create with "already exists" exactly for a name it holds   *)
(* and a delete with "not found" exactly for a name it does not hold, or   *)
(* answers either with a fault; nothing else writes to it during a run.    *)
(***************************************************************************)
EXTENDS Integers, Sequences, FiniteSets, TLC

\* ------------------------------------------------------------------ bounds
\* Largest --count value given on the command line.
MaxCount == 5
\* Number of invocations of the tool in a row (specification SpecRerun).
MaxRuns == 2

\* ------------------------------------------------------- program constants
\* Exit status of clap's usage error, of main returning Err, of main
\* returning Ok.
ExitUsage == 2
ExitFailure == 1
ExitSuccess == 0

\* --------------------------------------------------------------- inputs
Prefixes == {"demo", "X"}
Commands == {"create", "delete"}
Counts == 0 .. MaxCount

\* format!("{}-{}", prefix, i)
Name(p, k) == p \o "-" \o ToString(k)
\* format!("secret-value-{}", i)
SecretString(k) == "secret-value-" \o ToString(k)

\* A faulty variant of CreateRequest: the loop counts from 0.
CreateRequestZeroBased(p, k) ==
    [op |-> "CreateSecret", name |-> Name(p, k - 1),
     secret_string |-> SecretString(k - 1)]

\* The request built by client.create_secret().name(..).secret_string(..)
CreateRequest(p, k) ==
    [op |-> "CreateSecret", name |-> Name(p, k), secret_string |-> SecretString(k)]
\* A faulty variant of DeleteRequest: the name is built from the next index.
DeleteRequestNextIndex(p, k) ==
    [op |-> "DeleteSecret", secret_id |-> Name(p, k + 1),
     force_delete_without_recovery |-> TRUE]

\* A faulty variant of DeleteRequest: the secret is deleted with a recovery window.
DeleteRequestRecoverable(p, k) ==
    [op |-> "DeleteSecret", secret_id |-> Name(p, k),
     force_delete_without_recovery |-> FALSE]

\* The request built by
\* client.delete_secret().secret_id(..).force_delete_without_recovery(true)
DeleteRequest(p, k) ==
    [op |-> "DeleteSecret", secret_id |-> Name(p, k),
     force_delete_without_recovery |-> TRUE]

\* Progress-bar messages and printed lines.
CreatedSecretMsg(n) == "Created secret: " \o n
SecretExistsLine(n) == "Secret already exists: " \o n
CreatedSummary(c) == "Created " \o ToString(c) \o " secrets"
DeletedSecretMsg(n) == "Deleted secret: " \o n
SecretNotFoundLine(n) == "Secret not found: " \o n
DeletedSummary(c) == "Deleted " \o ToString(c) \o " secrets"

\* ------------------------------------------------------------ the service
\* Service errors other than the benign one, as the SDK's error enums name
\* them.  A transport failure, and a service error the enum has no variant
\* for (access denied, throttling), reach the match as Unhandled.
CreateFaults ==
    {"ResourceNotFoundException", "InternalServiceError", "InvalidRequestException",
     "Unhandled"}
DeleteFaults == {"InvalidRequestException", "InternalServiceError", "Unhandled"}

\* Names a secret may already have before the first invocation.
SeedNames == {Name("X", k) : k \in 1 .. MaxCount} \cup {"unrelated"}
SeedValue == "legacy"
SeedStores == {[n \in S |-> SeedValue] : S \in SUBSET SeedNames}

Remove(f, n) == [m \in (DOMAIN f) \ {n} |-> f[m]]
Put(f, n, v) == [m \in (DOMAIN f) \cup {n} |-> IF m = n THEN v ELSE f[m]]

VARIABLES
    argv,      \* the command line: subcommand, --count, --prefix
    pc,        \* position in main
    command,   \* args.command: "create", "delete" ("none" before parsing)
    count,     \* count: NonZeroU64
    prefix,    \* prefix: String
    i,         \* the loop variable
    errors,    \* let mut errors: u64 (at most count, itself a u64: no overflow)
    msg,       \* the progress bar's message ("" when never set)
    printed,   \* the lines written by pb.println
    finished,  \* pb.finish() was called
    calls,     \* the requests sent in this run, in order
    outcomes,  \* the outcomes of the resolved calls, in order
    pending,   \* the requests sent and not yet answered
    reply,     \* the outcome of the awaited call ("none" when there is none)
    store,     \* the remote service: secret name -> secret string
    exitCode,  \* the process's exit status (-1 while running)
    err,       \* the error main returned ("none" when there is none)
    faults,    \* how many requests the service has answered with a fault
    run,       \* the number of this invocation
    store0,    \* the store when this invocation started
    prev       \* what the previous invocation did (<< >> for the first)

vars == <<argv, pc, command, count, prefix, i, errors, msg, printed, finished, calls,
          outcomes, pending, reply, store, exitCode, err, faults, run, store0,
          prev>>

progress == <<msg, printed, finished>>
args == <<command, count, prefix>>
history == <<argv, faults, run, store0, prev>>

CommandLines == [command : Commands, count : Counts, prefix : Prefixes]

Fresh ==
    /\ pc = "parse"
    /\ command = "none"
    /\ count = 0
    /\ prefix = ""
    /\ i = 0
    /\ errors = 0
    /\ msg = ""
    /\ printed = << >>
    /\ finished = FALSE
    /\ calls = << >>
    /\ outcomes = << >>
    /\ pending = {}
    /\ reply = "none"
    /\ exitCode = -1
    /\ err = "none"

Init ==
    /\ Fresh
    /\ argv \in CommandLines
    /\ faults = 0
    /\ store \in SeedStores
    /\ store0 = store
    /\ run = 1
    /\ prev = << >>

\* A faulty variant of Parse: count is a plain u64, so 0 is accepted.
ParseAcceptsZero ==
    /\ pc = "parse"
    /\ command' = argv.command
    /\ count' = argv.count
    /\ prefix' = argv.prefix
    /\ i' = 1
    /\ pc' = IF argv.command = "create" THEN "create_loop" ELSE "delete_loop"
    /\ UNCHANGED <<exitCode, err, errors, progress, calls, outcomes, pending, reply,
                   store, history>>

\* Args::parse(): count is a NonZeroU64, so "--count 0" is a usage error and
\* the process exits before main builds the client.
Parse ==
    /\ pc = "parse"
    /\ IF argv.count = 0
       THEN /\ pc' = "exited"
            /\ exitCode' = ExitUsage
            /\ err' = "usage"
            /\ UNCHANGED <<args, i>>
       ELSE /\ command' = argv.command
            /\ count' = argv.count
            /\ prefix' = argv.prefix
            /\ i' = 1
            /\ pc' = IF argv.command = "create" THEN "create_loop" ELSE "delete_loop"
            /\ UNCHANGED <<exitCode, err>>
    /\ UNCHANGED <<errors, progress, calls, outcomes, pending, reply, store, history>>

\* A faulty variant of CreateSend: the request is sent and not awaited; the
\* loop goes on to the next index at once.
CreateSendNotAwaited ==
    /\ pc = "create_loop"
    /\ i <= count
    /\ calls' = Append(calls, CreateRequest(prefix, i))
    /\ pending' = pending \cup {CreateRequest(prefix, i)}
    /\ i' = i + 1
    /\ UNCHANGED <<pc, args, errors, progress, outcomes, reply, store, exitCode, err, history>>

\* for i in 1..=count: build the name and send the create request.
CreateSend ==
    /\ pc = "create_loop"
    /\ i <= count
    /\ calls' = Append(calls, CreateRequest(prefix, i))
    /\ pending' = pending \cup {CreateRequest(prefix, i)}
    /\ pc' = "create_await"
    /\ UNCHANGED <<args, i, errors, progress, outcomes, reply, store, exitCode, err, history>>

\* The service answers a create request: a fault, or "already exists" for a
\* name it holds, or success, storing the secret.
ServiceCreate(req, fault) ==
    /\ req \in pending
    /\ req.op = "CreateSecret"
    /\ pending' = pending \ {req}
    /\ faults' = IF fault # "none" THEN faults + 1 ELSE faults
    /\ IF fault # "none"
       THEN reply' = fault /\ UNCHANGED store
       ELSE IF req.name \in DOMAIN store
            THEN reply' = "ResourceExistsException" /\ UNCHANGED store
            ELSE reply' = "Ok" /\ store' = Put(store, req.name, req.secret_string)
    /\ UNCHANGED <<pc, args, i, errors, progress, calls, outcomes, exitCode, err,
                   argv, run, store0, prev>>

\* A faulty variant of CreateMatch: no error is whitelisted, "already exists" aborts
\* the run like any other.
CreateMatchNoWhitelist ==
    /\ pc = "create_await"
    /\ reply # "none"
    /\ outcomes' = Append(outcomes, reply)
    /\ reply' = "none"
    /\ CASE reply = "Ok" ->
              /\ msg' = CreatedSecretMsg(Name(prefix, i))
              /\ i' = i + 1
              /\ pc' = "create_loop"
              /\ UNCHANGED <<errors, printed, exitCode, err>>
         [] OTHER ->
              /\ err' = reply
              /\ exitCode' = ExitFailure
              /\ pc' = "exited"
              /\ UNCHANGED <<i, errors, msg, printed>>
    /\ UNCHANGED <<args, finished, calls, pending, store, history>>

\* A faulty variant of CreateMatch: "not found" is skipped as "already exists"
\* is.
CreateMatchBothBenign ==
    /\ pc = "create_await"
    /\ reply # "none"
    /\ outcomes' = Append(outcomes, reply)
    /\ reply' = "none"
    /\ CASE reply = "Ok" ->
              /\ msg' = CreatedSecretMsg(Name(prefix, i))
              /\ i' = i + 1
              /\ pc' = "create_loop"
              /\ UNCHANGED <<errors, printed, exitCode, err>>
         [] reply \in {"ResourceExistsException", "ResourceNotFoundException"} ->
              /\ printed' = Append(printed, SecretExistsLine(Name(prefix, i)))
              /\ errors' = errors + 1
              /\ i' = i + 1
              /\ pc' = "create_loop"
              /\ UNCHANGED <<msg, exitCode, err>>
         [] OTHER ->
              /\ err' = reply
              /\ exitCode' = ExitFailure
              /\ pc' = "exited"
              /\ UNCHANGED <<i, errors, msg, printed>>
    /\ UNCHANGED <<args, finished, calls, pending, store, history>>

\* A faulty variant of CreateMatch: a fatal error rolls the store back to what
\* it held when the run started.
CreateMatchRollsBack ==
    /\ pc = "create_await"
    /\ reply # "none"
    /\ outcomes' = Append(outcomes, reply)
    /\ reply' = "none"
    /\ CASE reply = "Ok" ->
              /\ msg' = CreatedSecretMsg(Name(prefix, i))
              /\ i' = i + 1
              /\ pc' = "create_loop"
              /\ UNCHANGED <<errors, printed, exitCode, err, store>>
         [] reply = "ResourceExistsException" ->
              /\ printed' = Append(printed, SecretExistsLine(Name(prefix, i)))
              /\ errors' = errors + 1
              /\ i' = i + 1
              /\ pc' = "create_loop"
              /\ UNCHANGED <<msg, exitCode, err, store>>
         [] OTHER ->
              /\ err' = reply
              /\ exitCode' = ExitFailure
              /\ pc' = "exited"
              /\ store' = store0
              /\ UNCHANGED <<i, errors, msg, printed>>
    /\ UNCHANGED <<args, finished, calls, pending, history>>

\* A faulty variant of CreateMatch: "already exists" is retried as an update,
\* which overwrites the value the secret held.
CreateMatchUpdatesExisting ==
    /\ pc = "create_await"
    /\ reply # "none"
    /\ outcomes' = Append(outcomes, reply)
    /\ reply' = "none"
    /\ CASE reply = "Ok" ->
              /\ msg' = CreatedSecretMsg(Name(prefix, i))
              /\ i' = i + 1
              /\ pc' = "create_loop"
              /\ UNCHANGED <<errors, printed, exitCode, err, store>>
         [] reply = "ResourceExistsException" ->
              /\ printed' = Append(printed, SecretExistsLine(Name(prefix, i)))
              /\ errors' = errors + 1
              /\ store' = Put(store, Name(prefix, i), SecretString(i))
              /\ i' = i + 1
              /\ pc' = "create_loop"
              /\ UNCHANGED <<msg, exitCode, err>>
         [] OTHER ->
              /\ err' = reply
              /\ exitCode' = ExitFailure
              /\ pc' = "exited"
              /\ UNCHANGED <<i, errors, msg, printed, store>>
    /\ UNCHANGED <<args, finished, calls, pending, history>>

\* A faulty variant of CreateMatch: the counter is bumped on every outcome that does
\* not abort, success included.
CreateMatchCountsAll ==
    /\ pc = "create_await"
    /\ reply # "none"
    /\ outcomes' = Append(outcomes, reply)
    /\ reply' = "none"
    /\ CASE reply = "Ok" ->
              /\ msg' = CreatedSecretMsg(Name(prefix, i))
              /\ errors' = errors + 1
              /\ i' = i + 1
              /\ pc' = "create_loop"
              /\ UNCHANGED <<printed, exitCode, err>>
         [] reply = "ResourceExistsException" ->
              /\ printed' = Append(printed, SecretExistsLine(Name(prefix, i)))
              /\ errors' = errors + 1
              /\ i' = i + 1
              /\ pc' = "create_loop"
              /\ UNCHANGED <<msg, exitCode, err>>
         [] OTHER ->
              /\ err' = reply
              /\ exitCode' = ExitFailure
              /\ pc' = "exited"
              /\ UNCHANGED <<i, errors, msg, printed>>
    /\ UNCHANGED <<args, finished, calls, pending, store, history>>

\* The match on the awaited result of create_secret().send().
CreateMatch ==
    /\ pc = "create_await"
    /\ reply # "none"
    /\ outcomes' = Append(outcomes, reply)
    /\ reply' = "none"
    /\ CASE reply = "Ok" ->
              /\ msg' = CreatedSecretMsg(Name(prefix, i))
              /\ i' = i + 1
              /\ pc' = "create_loop"
              /\ UNCHANGED <<errors, printed, exitCode, err>>
         [] reply = "ResourceExistsException" ->
              /\ printed' = Append(printed, SecretExistsLine(Name(prefix, i)))
              /\ errors' = errors + 1
              /\ i' = i + 1
              /\ pc' = "create_loop"
              /\ UNCHANGED <<msg, exitCode, err>>
         [] OTHER ->
              /\ err' = reply
              /\ exitCode' = ExitFailure
              /\ pc' = "exited"
              /\ UNCHANGED <<i, errors, msg, printed>>
    /\ UNCHANGED <<args, finished, calls, pending, store, history>>

\* A faulty variant of CreateFinish: the range of the loop excludes count.
CreateFinishExclusive ==
    /\ pc = "create_loop"
    /\ i >= count
    /\ msg' = IF errors = 0 THEN CreatedSummary(count) ELSE msg
    /\ finished' = TRUE
    /\ exitCode' = ExitSuccess
    /\ pc' = "exited"
    /\ UNCHANGED <<args, i, errors, printed, calls, outcomes, pending, reply, store, err, history>>

\* A faulty variant of CreateFinish: the summary is set whatever the counter says.
CreateFinishUngated ==
    /\ pc = "create_loop"
    /\ i > count
    /\ msg' = CreatedSummary(count)
    /\ finished' = TRUE
    /\ exitCode' = ExitSuccess
    /\ pc' = "exited"
    /\ UNCHANGED <<args, i, errors, printed, calls, outcomes, pending, reply, store, err, history>>

\* A faulty variant of CreateFinish: a run that met a conflict ends in failure.
CreateFinishFailsOnConflict ==
    /\ pc = "create_loop"
    /\ i > count
    /\ msg' = IF errors = 0 THEN CreatedSummary(count) ELSE msg
    /\ finished' = TRUE
    /\ exitCode' = IF errors = 0 THEN ExitSuccess ELSE ExitFailure
    /\ pc' = "exited"
    /\ UNCHANGED <<args, i, errors, printed, calls, outcomes, pending, reply, store, err, history>>

\* After the create loop: the summary, gated on errors == 0, and pb.finish().
CreateFinish ==
    /\ pc = "create_loop"
    /\ i > count
    /\ msg' = IF errors = 0 THEN CreatedSummary(count) ELSE msg
    /\ finished' = TRUE
    /\ exitCode' = ExitSuccess
    /\ pc' = "exited"
    /\ UNCHANGED <<args, i, errors, printed, calls, outcomes, pending, reply, store, err, history>>

\* for i in 1..=count: build the name and send the delete request.
DeleteSend ==
    /\ pc = "delete_loop"
    /\ i <= count
    /\ calls' = Append(calls, DeleteRequest(prefix, i))
    /\ pending' = pending \cup {DeleteRequest(prefix, i)}
    /\ pc' = "delete_await"
    /\ UNCHANGED <<args, i, errors, progress, outcomes, reply, store, exitCode, err, history>>

\* The service answers a delete request: a fault, or "not found" for a name
\* it does not hold, or success, removing the secret at once (no recovery
\* window was asked for).
ServiceDelete(req, fault) ==
    /\ req \in pending
    /\ req.op = "DeleteSecret"
    /\ pending' = pending \ {req}
    /\ faults' = IF fault # "none" THEN faults + 1 ELSE faults
    /\ IF fault # "none"
       THEN reply' = fault /\ UNCHANGED store
       ELSE IF req.secret_id \in DOMAIN store
            THEN reply' = "Ok" /\ store' = Remove(store, req.secret_id)
            ELSE reply' = "ResourceNotFoundException" /\ UNCHANGED store
    /\ UNCHANGED <<pc, args, i, errors, progress, calls, outcomes, exitCode, err,
                   argv, run, store0, prev>>

\* A faulty variant of DeleteMatch: every service error is skipped like "not found".
DeleteMatchSkipsAll ==
    /\ pc = "delete_await"
    /\ reply # "none"
    /\ outcomes' = Append(outcomes, reply)
    /\ reply' = "none"
    /\ CASE reply = "Ok" ->
              /\ msg' = DeletedSecretMsg(Name(prefix, i))
              /\ UNCHANGED printed
         [] OTHER ->
              /\ printed' = Append(printed, SecretNotFoundLine(Name(prefix, i)))
              /\ UNCHANGED msg
    /\ i' = i + 1
    /\ pc' = "delete_loop"
    /\ UNCHANGED <<args, errors, finished, calls, pending, store, exitCode, err, history>>

\* A faulty variant of DeleteMatch: no error is whitelisted, "not found" aborts
\* the run like any other.
DeleteMatchNoWhitelist ==
    /\ pc = "delete_await"
    /\ reply # "none"
    /\ outcomes' = Append(outcomes, reply)
    /\ reply' = "none"
    /\ CASE reply = "Ok" ->
              /\ msg' = DeletedSecretMsg(Name(prefix, i))
              /\ i' = i + 1
              /\ pc' = "delete_loop"
              /\ UNCHANGED <<printed, exitCode, err>>
         [] OTHER ->
              /\ err' = reply
              /\ exitCode' = ExitFailure
              /\ pc' = "exited"
              /\ UNCHANGED <<i, msg, printed>>
    /\ UNCHANGED <<args, errors, finished, calls, pending, store, history>>

\* A faulty variant of DeleteMatch: "not found" ends the loop instead of going
\* on to the next index.
DeleteMatchBreaksOnNotFound ==
    /\ pc = "delete_await"
    /\ reply # "none"
    /\ outcomes' = Append(outcomes, reply)
    /\ reply' = "none"
    /\ CASE reply = "Ok" ->
              /\ msg' = DeletedSecretMsg(Name(prefix, i))
              /\ i' = i + 1
              /\ pc' = "delete_loop"
              /\ UNCHANGED <<printed, exitCode, err>>
         [] reply = "ResourceNotFoundException" ->
              /\ printed' = Append(printed, SecretNotFoundLine(Name(prefix, i)))
              /\ i' = count + 1
              /\ pc' = "delete_loop"
              /\ UNCHANGED <<msg, exitCode, err>>
         [] OTHER ->
              /\ err' = reply
              /\ exitCode' = ExitFailure
              /\ pc' = "exited"
              /\ UNCHANGED <<i, msg, printed>>
    /\ UNCHANGED <<args, errors, finished, calls, pending, store, history>>

\* A faulty variant of DeleteMatch: "not found" is counted, as the create loop
\* counts "already exists".
DeleteMatchCounts ==
    /\ pc = "delete_await"
    /\ reply # "none"
    /\ outcomes' = Append(outcomes, reply)
    /\ reply' = "none"
    /\ CASE reply = "Ok" ->
              /\ msg' = DeletedSecretMsg(Name(prefix, i))
              /\ i' = i + 1
              /\ pc' = "delete_loop"
              /\ UNCHANGED <<errors, printed, exitCode, err>>
         [] reply = "ResourceNotFoundException" ->
              /\ printed' = Append(printed, SecretNotFoundLine(Name(prefix, i)))
              /\ errors' = errors + 1
              /\ i' = i + 1
              /\ pc' = "delete_loop"
              /\ UNCHANGED <<msg, exitCode, err>>
         [] OTHER ->
              /\ err' = reply
              /\ exitCode' = ExitFailure
              /\ pc' = "exited"
              /\ UNCHANGED <<i, errors, msg, printed>>
    /\ UNCHANGED <<args, finished, calls, pending, store, history>>

\* The match on the awaited result of delete_secret().send().
DeleteMatch ==
    /\ pc = "delete_await"
    /\ reply # "none"
    /\ outcomes' = Append(outcomes, reply)
    /\ reply' = "none"
    /\ CASE reply = "Ok" ->
              /\ msg' = DeletedSecretMsg(Name(prefix, i))
              /\ i' = i + 1
              /\ pc' = "delete_loop"
              /\ UNCHANGED <<printed, exitCode, err>>
         [] reply = "ResourceNotFoundException" ->
              /\ printed' = Append(printed, SecretNotFoundLine(Name(prefix, i)))
              /\ i' = i + 1
              /\ pc' = "delete_loop"
              /\ UNCHANGED <<msg, exitCode, err>>
         [] OTHER ->
              /\ err' = reply
              /\ exitCode' = ExitFailure
              /\ pc' = "exited"
              /\ UNCHANGED <<i, msg, printed>>
    /\ UNCHANGED <<args, errors, finished, calls, pending, store, history>>

\* A faulty variant of DeleteFinish: the summary is gated as the create summary is,
\* on no item having been skipped.
DeleteFinishGated ==
    /\ pc = "delete_loop"
    /\ i > count
    /\ msg' = IF printed = << >> THEN DeletedSummary(count) ELSE msg
    /\ finished' = TRUE
    /\ exitCode' = ExitSuccess
    /\ pc' = "exited"
    /\ UNCHANGED <<args, i, errors, printed, calls, outcomes, pending, reply, store, err, history>>

\* After the delete loop: the summary, not gated, and pb.finish().
DeleteFinish ==
    /\ pc = "delete_loop"
    /\ i > count
    /\ msg' = DeletedSummary(count)
    /\ finished' = TRUE
    /\ exitCode' = ExitSuccess
    /\ pc' = "exited"
    /\ UNCHANGED <<args, i, errors, printed, calls, outcomes, pending, reply, store, err, history>>

\* What an invocation leaves behind for the next one to be compared with.
Summary ==
    [command |-> command, count |-> count, prefix |-> prefix,
     exitCode |-> exitCode, errors |-> errors, outcomes |-> outcomes,
     msg |-> msg, store0 |-> store0]

\* The process has exited and the tool is invoked again, for either command
\* with the same count and prefix: a new process, with nothing kept from the
\* previous one but what the service stores.
Rerun(cmd) ==
    /\ pc = "exited"
    /\ argv' = [argv EXCEPT !.command = cmd]
    /\ run < MaxRuns
    /\ run' = run + 1
    /\ prev' = Summary
    /\ store0' = store
    /\ pc' = "parse"
    /\ command' = "none"
    /\ count' = 0
    /\ prefix' = ""
    /\ i' = 0
    /\ errors' = 0
    /\ msg' = ""
    /\ printed' = << >>
    /\ finished' = FALSE
    /\ calls' = << >>
    /\ outcomes' = << >>
    /\ pending' = {}
    /\ reply' = "none"
    /\ exitCode' = -1
    /\ err' = "none"
    /\ UNCHANGED <<store, faults>>

Next ==
    \/ Parse
    \/ CreateSend
    \/ \E req \in pending, fault \in CreateFaults \cup {"none"} : ServiceCreate(req, fault)
    \/ CreateMatch
    \/ CreateFinish
    \/ DeleteSend
    \/ \E req \in pending, fault \in DeleteFaults \cup {"none"} : ServiceDelete(req, fault)
    \/ DeleteMatch
    \/ DeleteFinish

\* One invocation of the tool, on any command line, against any seeded store.
Spec == Init /\ [][Next]_vars

\* The steps of main, and the answers of the service.
Program ==
    \/ Parse
    \/ CreateSend \/ CreateMatch \/ CreateFinish
    \/ DeleteSend \/ DeleteMatch \/ DeleteFinish
Service ==
    \/ \E req \in pending, fault \in CreateFaults \cup {"none"} : ServiceCreate(req, fault)
    \/ \E req \in pending, fault \in DeleteFaults \cup {"none"} : ServiceDelete(req, fault)

\* One invocation in which main, the only thread, keeps running and every
\* request sent is answered.
SpecLive == Init /\ [][Next]_vars /\ WF_vars(Program) /\ WF_vars(Service)

\* Stores the first of several invocations starts from.
RerunStores == {f \in SeedStores : DOMAIN f \subseteq {Name("X", 1), "unrelated"}}

InitRerun ==
    /\ Fresh
    /\ argv \in CommandLines
    /\ faults = 0
    /\ store \in RerunStores
    /\ store0 = store
    /\ run = 1
    /\ prev = << >>

NextRerun ==
    \/ Next
    \/ \E cmd \in Commands : Rerun(cmd)

\* Up to MaxRuns invocations in a row, with the same count and prefix.
SpecRerun == InitRerun /\ [][NextRerun]_vars

\* ------------------------------------------------------------ properties
Range(s) == {s[k] : k \in 1 .. Len(s)}

RECURSIVE Occurrences(_, _)
Occurrences(s, x) ==
    IF s = << >> THEN 0
    ELSE (IF Head(s) = x THEN 1 ELSE 0) + Occurrences(Tail(s), x)

\* The one benign error of each subcommand, as the specification lists them.
Whitelisted(cmd) ==
    IF cmd = "create" THEN "ResourceExistsException" ELSE "ResourceNotFoundException"
Fatal(cmd, r) == r # "Ok" /\ r # Whitelisted(cmd)
NoFatalOutcome == \A j \in 1 .. Len(outcomes) : ~Fatal(argv.command, outcomes[j])

\* C1: a create run in which no call returns a fatal error issues exactly
\* count create calls, the k-th for the name P-k with the payload
\* secret-value-k: distinct names, ascending indices, none skipped or
\* repeated.
C1_CreateCalls ==
    (argv.command = "create" /\ NoFatalOutcome) =>
        /\ Len(calls) <= argv.count
        /\ \A k \in 1 .. Len(calls) :
               calls[k] = [op |-> "CreateSecret",
                           name |-> argv.prefix \o "-" \o ToString(k),
                           secret_string |-> "secret-value-" \o ToString(k)]
        /\ \A j, k \in 1 .. Len(calls) : j # k => calls[j].name # calls[k].name
        /\ (pc = "exited" /\ argv.count >= 1) => Len(calls) = argv.count

C1_Witness ==
    /\ argv.command = "create" /\ pc = "exited" /\ NoFatalOutcome
    /\ Len(calls) >= 3
    /\ "Ok" \in Range(outcomes) /\ "ResourceExistsException" \in Range(outcomes)

\* C2: a delete run in which no call returns a fatal error issues exactly
\* count delete calls, the k-th for the name P-k, in ascending order, each
\* asking for deletion without recovery.
C2_DeleteCalls ==
    (argv.command = "delete" /\ NoFatalOutcome) =>
        /\ Len(calls) <= argv.count
        /\ \A k \in 1 .. Len(calls) :
               /\ calls[k].op = "DeleteSecret"
               /\ calls[k].secret_id = argv.prefix \o "-" \o ToString(k)
               /\ calls[k].force_delete_without_recovery = TRUE
        /\ (pc = "exited" /\ argv.count >= 1) => Len(calls) = argv.count

C2_Witness ==
    /\ argv.command = "delete" /\ pc = "exited" /\ NoFatalOutcome
    /\ Len(calls) >= 3
    /\ "Ok" \in Range(outcomes) /\ "ResourceNotFoundException" \in Range(outcomes)

\* C3: a call that returns an error other than the subcommand's benign one
\* aborts the run at once: when the call for index j is fatal, the run has
\* exited and exactly j calls were made, in this and every later state.
C3_FailFast ==
    \A j \in 1 .. Len(outcomes) :
        Fatal(argv.command, outcomes[j]) =>
            /\ pc = "exited"
            /\ exitCode # ExitSuccess
            /\ Len(calls) = j
            /\ pending = {}

C3_Witness ==
    /\ pc = "exited"
    /\ Len(outcomes) = 2
    /\ Fatal(argv.command, outcomes[2])
    /\ argv.count > 2

\* C4: in a create run "already exists" does not abort the run and adds
\* exactly 1 to the counter, the other outcomes add nothing: the counter is
\* the number of "already exists" outcomes so far, at most the number of
\* indices processed.
C4_BenignCounter ==
    argv.command = "create" =>
        /\ errors = Occurrences(outcomes, "ResourceExistsException")
        /\ errors <= Len(outcomes)
        /\ \A j \in 1 .. Len(outcomes) :
               outcomes[j] = "ResourceExistsException" =>
                   \/ Len(calls) > j
                   \/ (pc = "create_loop" /\ i = j + 1)
                   \/ (j = argv.count /\ pc = "exited" /\ exitCode = ExitSuccess)

C4_Witness ==
    /\ argv.command = "create"
    /\ errors = 2
    /\ Len(outcomes) = 4
    /\ outcomes[1] = "ResourceExistsException"
    /\ outcomes[4] = "InternalServiceError"

\* C5: a count of 0 is rejected when the arguments are parsed, for create
\* and for delete: the invocation ends with a usage error, no remote call is
\* made and the store is unchanged.
C5_CountZeroRejected ==
    (argv.count = 0 /\ pc # "parse") =>
        /\ pc = "exited"
        /\ exitCode = ExitUsage
        /\ calls = << >>
        /\ pending = {}
        /\ store = store0

C5_Witness ==
    /\ argv.count = 0
    /\ argv.command = "delete"
    /\ pc = "exited"
    /\ Name("X", 1) \in DOMAIN store

\* The highest index whose create call succeeded.
LastCreated == CHOOSE j \in 1 .. Len(outcomes) :
    outcomes[j] = "Ok" /\ \A k \in (j + 1) .. Len(outcomes) : outcomes[k] # "Ok"

Completed == pc = "exited" /\ exitCode = ExitSuccess

\* C6: after a create loop that completes, the final message is "Created
\* {count} secrets" exactly when the counter is 0; after a conflict the
\* message is the "Created secret: {name}" of the highest index that
\* succeeded, or no message when every item conflicted.
C6_CreateSummary ==
    (argv.command = "create" /\ Completed) =>
        /\ (msg = "Created " \o ToString(argv.count) \o " secrets") <=> (errors = 0)
        /\ errors > 0 =>
               msg = IF "Ok" \in Range(outcomes)
                     THEN "Created secret: " \o argv.prefix \o "-" \o ToString(LastCreated)
                     ELSE ""

C6_Witness ==
    /\ argv.command = "create" /\ Completed
    /\ Len(outcomes) >= 3
    /\ outcomes[2] = "Ok"
    /\ outcomes[Len(outcomes)] = "ResourceExistsException"
    /\ msg = "Created secret: X-2"

\* C7: after a delete loop that completes, the final message is "Deleted
\* {count} secrets" whatever number of items were not found; in a run that
\* aborts the summary is never set.
C7_DeleteSummary ==
    argv.command = "delete" =>
        (msg = "Deleted " \o ToString(argv.count) \o " secrets") <=> Completed

C7_Witness ==
    /\ argv.command = "delete" /\ Completed
    /\ Len(outcomes) >= 2
    /\ Range(outcomes) = {"ResourceNotFoundException"}

\* C8: the process exits non-zero exactly when some remote call returned a
\* failure that is not benign, or the arguments were invalid; it exits zero
\* after a full pass over 1..count, whatever the number of benign conflicts.
C8_ExitStatus ==
    pc = "exited" =>
        /\ exitCode \in {ExitSuccess, ExitFailure, ExitUsage}
        /\ (exitCode # ExitSuccess) <=> (~NoFatalOutcome \/ argv.count = 0)
        /\ exitCode = ExitSuccess =>
               /\ Len(calls) = argv.count
               /\ Len(outcomes) = argv.count
               /\ \A k \in 1 .. argv.count : calls[k] \in
                      {CreateRequest(argv.prefix, k), DeleteRequest(argv.prefix, k)}

C8_Witness ==
    /\ argv.command = "create" /\ Completed
    /\ Len(outcomes) >= 2
    /\ Range(outcomes) = {"ResourceExistsException"}

\* The invocation before this one was "create --count c --prefix p", started
\* against a store holding none of p-1 .. p-c, and the service has answered
\* no request with a fault so far.
AfterCreateOnFresh(c, p) ==
    /\ run >= 2
    /\ prev.command = "create" /\ prev.count = c /\ prev.prefix = p
    /\ \A k \in 1 .. c : (p \o "-" \o ToString(k)) \notin DOMAIN prev.store0
    /\ faults = 0

\* C9: create --count 5 --prefix X run twice in a row, the first against a
\* store holding none of X-1 .. X-5: the second run meets 5 "already exists"
\* outcomes and no fatal error, and leaves the store as the first run left it.
C9_CreateTwice ==
    (AfterCreateOnFresh(5, "X") /\ argv = [command |-> "create", count |-> 5, prefix |-> "X"]) =>
        /\ \A j \in 1 .. Len(outcomes) : outcomes[j] = "ResourceExistsException"
        /\ reply \in {"none", "ResourceExistsException"}
        /\ store = store0
        /\ pc = "exited" =>
               /\ exitCode = ExitSuccess
               /\ Len(outcomes) = 5
               /\ errors = 5

C9_Witness ==
    /\ AfterCreateOnFresh(5, "X")
    /\ argv = [command |-> "create", count |-> 5, prefix |-> "X"]
    /\ pc = "exited"
    /\ errors = 5
    /\ prev.errors = 0

DemoStore ==
    [n \in {"demo-1", "demo-2", "demo-3"} |->
        IF n = "demo-1" THEN "secret-value-1"
        ELSE IF n = "demo-2" THEN "secret-value-2" ELSE "secret-value-3"]

\* C10: create --count 3 --prefix demo against an empty store leaves exactly
\* demo-1, demo-2, demo-3 holding secret-value-1, -2, -3; the delete --count 3
\* --prefix demo that follows meets no "not found", empties the store and
\* ends with the message "Deleted 3 secrets".
C10_EndToEnd ==
    /\ (/\ run = 1
        /\ argv = [command |-> "create", count |-> 3, prefix |-> "demo"]
        /\ DOMAIN store0 = {}
        /\ faults = 0
        /\ pc = "exited") => store = DemoStore
    /\ (/\ run = 2
        /\ AfterCreateOnFresh(3, "demo")
        /\ DOMAIN prev.store0 = {}
        /\ argv = [command |-> "delete", count |-> 3, prefix |-> "demo"]) =>
            /\ store0 = DemoStore
            /\ "ResourceNotFoundException" \notin Range(outcomes) \cup {reply}
            /\ pc = "exited" =>
                   /\ DOMAIN store = {}
                   /\ msg = "Deleted 3 secrets"
                   /\ exitCode = ExitSuccess

C10_Witness ==
    /\ run = 2
    /\ AfterCreateOnFresh(3, "demo")
    /\ DOMAIN prev.store0 = {}
    /\ argv = [command |-> "delete", count |-> 3, prefix |-> "demo"]
    /\ pc = "exited"
    /\ outcomes = <<"Ok", "Ok", "Ok">>
    /\ DOMAIN store = {}

\* The run was aborted by the j-th outcome, which main returned as its error.
AbortedBy(j) ==
    /\ pc = "exited"
    /\ exitCode = ExitFailure
    /\ Len(outcomes) = j
    /\ err = outcomes[j]

\* C11: the classification is binary, with one whitelisted error per
\* subcommand: a create run is aborted by every outcome but success and
\* "already exists" ("not found" included), a delete run by every outcome but
\* success and "not found"; the whitelisted error never aborts.
C11_Classification ==
    \A j \in 1 .. Len(outcomes) :
        /\ argv.command = "create" =>
               (AbortedBy(j) <=> outcomes[j] \notin {"Ok", "ResourceExistsException"})
        /\ argv.command = "delete" =>
               (AbortedBy(j) <=> outcomes[j] \notin {"Ok", "ResourceNotFoundException"})

C11_Witness ==
    /\ argv.command = "create"
    /\ Len(outcomes) = 3
    /\ outcomes[1] = "ResourceExistsException"
    /\ outcomes[3] = "ResourceNotFoundException"
    /\ AbortedBy(3)

\* C12: in a delete run the match of a "not found" answer for index i prints
\* "Secret not found: {name}" and goes on to index i+1; it changes no counter
\* and not the progress message: a delete run counts no benign conflict.
C12_NotFoundSkipped ==
    [][(pc = "delete_await" /\ reply = "ResourceNotFoundException") =>
           /\ printed' = Append(printed,
                  "Secret not found: " \o argv.prefix \o "-" \o ToString(i))
           /\ Len(outcomes') = i
           /\ i' = i + 1
           /\ pc' = "delete_loop"
           /\ msg' = msg
           /\ errors = 0 /\ errors' = 0
           /\ exitCode' = exitCode /\ err' = err /\ store' = store]_vars

C12_Witness ==
    /\ argv.command = "delete"
    /\ Len(outcomes) >= 3
    /\ outcomes[1] = "Ok"
    /\ outcomes[2] = "ResourceNotFoundException"
    /\ printed = <<"Secret not found: X-2">>
    /\ msg = "Deleted secret: X-3"

\* The name a request is for.
CallName(c) == IF c.op = "CreateSecret" THEN c.name ELSE c.secret_id

\* The names P-1 .. P-N of the command line.
Targets == {argv.prefix \o "-" \o ToString(k) : k \in 1 .. argv.count}

\* This invocation repeats, with the same command, count and prefix, an
\* invocation that a fatal error aborted.
RerunAfterAbort ==
    /\ run >= 2
    /\ prev.exitCode = ExitFailure
    /\ argv = [command |-> prev.command, count |-> prev.count, prefix |-> prev.prefix]

\* C13: the rerun of a run that a fatal error aborted starts again at index
\* 1; when no call of the rerun is fatal it completes over all of 1..N, every
\* name the aborted create run created answers "already exists" and all of
\* P-1..P-N exist afterwards; every name the aborted delete run deleted
\* answers "not found" and none of P-1..P-N is left.
C13_RerunAfterAbort ==
    RerunAfterAbort =>
        /\ \A k \in 1 .. Len(calls) :
               CallName(calls[k]) = argv.prefix \o "-" \o ToString(k)
        /\ (pc = "exited" /\ NoFatalOutcome) =>
               /\ exitCode = ExitSuccess
               /\ Len(calls) = argv.count
               /\ \A k \in 1 .. Len(prev.outcomes) :
                      prev.outcomes[k] = "Ok" => outcomes[k] = Whitelisted(argv.command)
               /\ argv.command = "create" => Targets \subseteq DOMAIN store
               /\ argv.command = "delete" => Targets \cap DOMAIN store = {}

C13_Witness ==
    /\ RerunAfterAbort
    /\ argv.command = "create"
    /\ Len(prev.outcomes) = 3
    /\ prev.outcomes[2] = "Ok"
    /\ Completed
    /\ Len(outcomes) = 5
    /\ outcomes[2] = "ResourceExistsException"
    /\ outcomes[3] = "Ok"

\* C14: a create run rolls nothing back: in every state, also after a fatal
\* error at a later index, each secret created at an earlier index is in the
\* store with its payload, the run has sent no delete, and the store has
\* grown by exactly one secret per success.
C14_NoRollback ==
    argv.command = "create" =>
        /\ \A j \in 1 .. Len(outcomes) :
               outcomes[j] = "Ok" =>
                   /\ (argv.prefix \o "-" \o ToString(j)) \in DOMAIN store
                   /\ store[argv.prefix \o "-" \o ToString(j)] = "secret-value-" \o ToString(j)
        /\ \A k \in 1 .. Len(calls) : calls[k].op = "CreateSecret"
        /\ Cardinality(DOMAIN store) =
               Cardinality(DOMAIN store0) + Occurrences(outcomes, "Ok")
                   + (IF reply = "Ok" THEN 1 ELSE 0)

C14_Witness ==
    /\ argv.command = "create"
    /\ pc = "exited"
    /\ exitCode = ExitFailure
    /\ Len(outcomes) = 4
    /\ outcomes[1] = "Ok"
    /\ outcomes[3] = "Ok"
    /\ Cardinality(DOMAIN store) = Cardinality(DOMAIN store0) + 2

\* C15: items are processed one after the other: at most one request is
\* outstanding, the request for the next index is sent only once the outcome
\* of the one before it is resolved, and the calls are in index order.
C15_Sequential ==
    /\ Cardinality(pending) <= 1
    /\ Len(calls) - Len(outcomes) \in {0, 1}
    /\ pending # {} =>
           /\ reply = "none"
           /\ pending = {calls[Len(calls)]}
           /\ Len(calls) = Len(outcomes) + 1
    /\ reply # "none" => (pending = {} /\ Len(calls) = Len(outcomes) + 1)
    /\ \A k \in 1 .. Len(calls) :
           CallName(calls[k]) = argv.prefix \o "-" \o ToString(k)

C15_Witness ==
    /\ Cardinality(pending) = 1
    /\ Len(outcomes) = 2
    /\ Len(calls) = 3

\* The state of the run's state machine: Idle, Running(index), Completed,
\* Aborted, and Rejected for a command line that starts no run.
RunState ==
    CASE pc = "parse" -> <<"Idle", 0>>
      [] pc = "exited" /\ exitCode = ExitSuccess -> <<"Completed", 0>>
      [] pc = "exited" /\ exitCode = ExitFailure -> <<"Aborted", 0>>
      [] pc = "exited" /\ exitCode = ExitUsage -> <<"Rejected", 0>>
      [] OTHER -> <<"Running", i>>

\* The outcome a step resolves, "none" when it resolves none.
Resolved == IF Len(outcomes') = Len(outcomes) + 1 THEN outcomes'[Len(outcomes')] ELSE "none"

\* The transitions of the state machine.
Transition ==
    \/ RunState' = RunState /\ Resolved = "none"
    \/ RunState = <<"Idle", 0>> /\ RunState' = <<"Running", 1>> /\ argv.count >= 1
    \/ RunState = <<"Idle", 0>> /\ RunState' = <<"Rejected", 0>> /\ argv.count = 0
    \/ /\ RunState[1] = "Running"
       /\ RunState' = <<"Running", RunState[2] + 1>>
       /\ Resolved \in {"Ok", Whitelisted(argv.command)}
       /\ Len(outcomes') = RunState[2]
    \/ /\ RunState[1] = "Running"
       /\ RunState' = <<"Aborted", 0>>
       /\ Resolved # "none" /\ Fatal(argv.command, Resolved)
       /\ Len(outcomes') = RunState[2]
    \/ /\ RunState = <<"Running", argv.count + 1>>
       /\ RunState' = <<"Completed", 0>>
       /\ Resolved = "none"
       /\ Len(outcomes) = argv.count

\* C16: a run follows the state machine Idle -> Running(1) -> ..., with
\* Running(i) -> Running(i+1) on success or a benign skip and Running(i) ->
\* Aborted on a fatal error; when every request is answered it ends, and it
\* ends Completed, all of 1..count processed and no fatal error met, or
\* Aborted, by the first fatal error.
C16_StateMachine ==
    /\ [][Transition]_vars
    /\ <>(pc = "exited")
    /\ [](RunState[1] = "Completed" => (Len(outcomes) = argv.count /\ NoFatalOutcome))
    /\ [](RunState[1] = "Aborted" =>
              /\ Fatal(argv.command, outcomes[Len(outcomes)])
              /\ \A j \in 1 .. Len(outcomes) - 1 : ~Fatal(argv.command, outcomes[j]))

C16_Witness ==
    /\ RunState = <<"Completed", 0>>
    /\ argv.command = "delete"
    /\ Len(outcomes) >= 3
    /\ Range(outcomes) = {"Ok", "ResourceNotFoundException"}

\* C17: a delete run that completes leaves none of P-1 .. P-N in the store,
\* whichever of them the store held before the run.
C17_DeleteLeavesNone ==
    (argv.command = "delete" /\ Completed) => Targets \cap DOMAIN store = {}

C17_Witness ==
    /\ argv.command = "delete" /\ Completed
    /\ argv.count = 4
    /\ Targets \cap DOMAIN store0 = {"X-2", "X-4"}

\* C18: a run touches only the names P-1 .. P-N: every other name is in the
\* store exactly when it was at the start of the run, with the same value,
\* in every state of a create or delete run, completed or aborted.
C18_OtherNamesUntouched ==
    \A n \in (DOMAIN store0 \cup DOMAIN store) \ Targets :
        /\ n \in DOMAIN store0
        /\ n \in DOMAIN store
        /\ store[n] = store0[n]

C18_Witness ==
    /\ pc = "exited"
    /\ argv = [command |-> "delete", count |-> 2, prefix |-> "X"]
    /\ DOMAIN store0 = {"X-1", "X-2", "X-3", "unrelated"}
    /\ DOMAIN store = {"X-3", "unrelated"}

\* C19: a create run overwrites nothing: every secret the store held at the
\* start keeps its value, and after a completed run every P-i exists and
\* holds secret-value-i only if this run created it or it held that value
\* before.
C19_CreateNeverOverwrites ==
    argv.command = "create" =>
        /\ \A n \in DOMAIN store0 : n \in DOMAIN store /\ store[n] = store0[n]
        /\ Completed =>
               \A k \in 1 .. argv.count :
                   LET n == argv.prefix \o "-" \o ToString(k) IN
                   /\ n \in DOMAIN store
                   /\ store[n] = "secret-value-" \o ToString(k) =>
                          \/ outcomes[k] = "Ok"
                          \/ (n \in DOMAIN store0 /\ store0[n] = "secret-value-" \o ToString(k))

C19_Witness ==
    /\ argv.command = "create" /\ Completed
    /\ outcomes = <<"ResourceExistsException", "ResourceExistsException", "Ok">>
    /\ store0 = [n \in {"X-1", "X-2"} |-> IF n = "X-1" THEN "legacy" ELSE "secret-value-2"]
    /\ store["X-1"] = "legacy"
    /\ store["X-3"] = "secret-value-3"
====
